---- MODULE Spec2Model ----
(***************************************************************************)
(* A model of the SMT quantifier-instantiation profiler (src/src/main.rs). *)
(*                                                                         *)
(* main loads a z3tracer Model, derives the instantiation causality graph  *)
(* (Profiler::make_instantiation_graph), ranks the quantifier costs        *)
(* (Profiler::parse), dumps the graph, prints the per-quantifier report    *)
(* (Profiler::print_stats) and optionally builds the GUI graph             *)
(* (generate_graph).  The trace model is immutable input: it is chosen in  *)
(* Init and never changes.                                                 *)
(***************************************************************************)
EXTENDS Integers, Sequences, FiniteSets

VARIABLES
    instantiations,      \* model.instantiations(): QiKey -> QuantInstantiation
    terms,               \* model.term(ident): the term table, by quantifier ident
    quant_costs,         \* model.quant_costs(): sequence of QuantCost
    overflow_checks,     \* build profile: TRUE panics on u64 overflow, FALSE wraps
    pc,                  \* position of main
    term_blame,          \* HashMap enode -> QiKey (line 104)
    graph,               \* BTreeMap QiKey -> BTreeSet QiKey (line 116)
    instantiation_graph, \* Profiler.instantiation_graph, None until built
    quantifier_stats,    \* Profiler.quantifier_stats, None until parse returns
    stdout,              \* what main and print_stats have printed
    cursor,              \* index of print_stats' loop over quantifier_stats
    gui_graph,           \* the StableGraph of generate_graph, None until built
    panic                \* the panic that ended the run, "" while none

vars == <<instantiations, terms, quant_costs, overflow_checks, pc, term_blame,
          graph, instantiation_graph, quantifier_stats, stdout, cursor,
          gui_graph, panic>>

model_vars == <<instantiations, terms, quant_costs, overflow_checks>>

(***************************************************************************)
(* Option<T>: None is the empty set, Some(x) the singleton.                *)
(***************************************************************************)
None == {}

Some(x) == {x}

Unwrap(o) == CHOOSE x \in o : TRUE

(***************************************************************************)
(* Bounds of the model.                                                    *)
(***************************************************************************)
\* u64 arithmetic is modelled at a word of WordBits bits: the overflow
\* behaviour is that of the program's 64-bit word, at a size TLC can count.
WordBits == 10

\* The longest quant_costs sequence of the ranking specification.
MaxQuantCosts == 3

Word == 2 ^ WordBits

\* QiKey { key, version }: two versions of one key, and another key.
QiKeys ==
    { [key |-> 1, version |-> 0], [key |-> 1, version |-> 1],
      [key |-> 2, version |-> 0] }

\* The e-nodes (term identifiers) of the trace.
Enodes == {1, 2}

Trigger(t) == [tag |-> "Trigger", t |-> t]

Equality(t1, t2) == [tag |-> "Equality", t1 |-> t1, t2 |-> t2]

\* The `used` sequences a NewMatch frame is drawn from.
UsedChoices ==
    { <<>>, <<Trigger(1)>>, <<Trigger(2)>>, <<Equality(1, 2)>>,
      <<Equality(2, 1), Trigger(2)>> }

\* The `instances` sequences (each instance lists the enodes it produced).
InstancesChoices ==
    { <<>>, <<[enodes |-> <<1>>]>>, <<[enodes |-> <<2>>]>>,
      <<[enodes |-> <<1>>], [enodes |-> <<2>>]>> }

\* The quantifier a record of key k refers to.
QuantIdentOf(k) == IF k.key = 1 THEN "q1" ELSE "q2"

QuantIdents == {"q1", "q2"}

NewMatchFrame(q, u) == [tag |-> "NewMatch", quantifier |-> q, used |-> u]

DiscoveredFrame(q) == [tag |-> "Discovered", quantifier |-> q]

\* The records key k may map to.
RecordChoices(k) ==
    { [frame |-> NewMatchFrame(QuantIdentOf(k), u), instances |-> i] :
        u \in UsedChoices, i \in InstancesChoices }
    \cup
    { [frame |-> DiscoveredFrame(QuantIdentOf(k)), instances |-> i] :
        i \in { <<>>, <<[enodes |-> <<1>>]>> } }

\* Term tables: q1 is always a named term; q2 is named, not a term of the
\* table, or a term without a name.
NamedTerm(n) == Some([name |-> Some(n)])

TermTables ==
    { [q \in QuantIdents |-> IF q = "q1" THEN NamedTerm("k!1") ELSE t] :
        t \in { NamedTerm("k!2"), None, Some([name |-> None]) } }

(***************************************************************************)
(* QiKey's derived Ord: by key, then by version.  A BTreeMap iterates in   *)
(* this order.                                                             *)
(***************************************************************************)
QiKeyLess(a, b) == a.key < b.key \/ (a.key = b.key /\ a.version < b.version)

RECURSIVE InOrder(_)
InOrder(S) ==
    IF S = {} THEN <<>>
    ELSE LET m == CHOOSE a \in S : \A b \in S \ {a} : QiKeyLess(a, b)
         IN  <<m>> \o InOrder(S \ {m})

\* (u64, usize) from a QiKey (lines 156, 158, 167, 170).
Tuple(k) == <<k.key, k.version>>

(***************************************************************************)
(* make_instantiation_graph                                                *)
(***************************************************************************)
\* The filter of lines 94-101.
IsNewMatch(quant_inst) == quant_inst.frame.tag = "NewMatch"

\* The keys of quantifier_inst_matches, in iteration order.
quantifier_inst_matches ==
    SelectSeq(InOrder(DOMAIN instantiations),
              LAMBDA k : IsNewMatch(instantiations[k]))

\* BlameInsert as entry(t).or_insert(qi_key) would have it: the first
\* producer keeps the blame.
BlameInsert_FirstWins(blame, t, qi_key) ==
    [x \in (DOMAIN blame) \cup {t} |->
        IF x \in DOMAIN blame THEN blame[x] ELSE qi_key]

\* HashMap::insert: the entry of t is set, a former one overwritten.
BlameInsert(blame, t, qi_key) ==
    [x \in (DOMAIN blame) \cup {t} |-> IF x = t THEN qi_key ELSE blame[x]]

\* for node_ident in &inst.enodes (lines 107-109).
RECURSIVE BlameEnodes(_, _, _)
BlameEnodes(blame, enodes, qi_key) ==
    IF enodes = <<>> THEN blame
    ELSE BlameEnodes(BlameInsert(blame, Head(enodes), qi_key),
                     Tail(enodes), qi_key)

\* for inst in &quant_inst.instances (lines 106-110).
RECURSIVE BlameInstances(_, _, _)
BlameInstances(blame, instances, qi_key) ==
    IF instances = <<>> THEN blame
    ELSE BlameInstances(BlameEnodes(blame, Head(instances).enodes, qi_key),
                        Tail(instances), qi_key)

\* for (qi_key, quant_inst) in quantifier_inst_matches (lines 105-111).
RECURSIVE BlameRecords(_, _)
BlameRecords(blame, keys) ==
    IF keys = <<>> THEN blame
    ELSE BlameRecords(
             BlameInstances(blame, instantiations[Head(keys)].instances,
                            Head(keys)),
             Tail(keys))

EmptyMap == [x \in {} |-> {}]

\* Lines 103-111: the blame map, complete before any edge is made.
BlameAttribution ==
    /\ pc = "blame"
    /\ term_blame' = BlameRecords(EmptyMap, quantifier_inst_matches)
    /\ pc' = "init_nodes"
    /\ UNCHANGED <<model_vars, graph, instantiation_graph, quantifier_stats,
                   stdout, cursor, gui_graph, panic>>

\* The keys the first loop inserts in graph (lines 117-119).
InitialNodes == { quantifier_inst_matches[i] :
                    i \in 1..Len(quantifier_inst_matches) }

\* Lines 116-119: one node, with no outgoing edge, per NewMatch key.
InitGraphNodes ==
    /\ pc = "init_nodes"
    /\ graph' = [k \in InitialNodes |-> {}]
    /\ pc' = "edges"
    /\ UNCHANGED <<model_vars, term_blame, instantiation_graph,
                   quantifier_stats, stdout, cursor, gui_graph, panic>>

\* The state of the edge loop: the graph so far and the panic, if any.
EdgeState(g, p) == [graph |-> g, panic |-> p]

\* UseMatchedTerm with the Equality arm blaming its first term like a
\* trigger.
UseMatchedTerm_EqualityBlamed(st, used, qi_key) ==
    IF st.panic # "" THEN st
    ELSE LET t == IF used.tag = "Trigger" THEN used.t ELSE used.t1
         IN  IF t \notin DOMAIN term_blame
             THEN st
             ELSE IF term_blame[t] \in DOMAIN st.graph
             THEN EdgeState(
                      [st.graph EXCEPT ![term_blame[t]] = @ \cup {qi_key}], "")
             ELSE EdgeState(st.graph, "Responsible qikey not found!")

\* UseMatchedTerm with attribution and edge creation interleaved in one
\* pass: the blame map holds only the records iterated up to qi_key.
UseMatchedTerm_Interleaved(st, used, qi_key) ==
    LET blame == BlameRecords(EmptyMap,
                     SelectSeq(quantifier_inst_matches,
                               LAMBDA k : k = qi_key \/ QiKeyLess(k, qi_key)))
    IN  IF st.panic # "" THEN st
        ELSE IF used.tag = "Trigger" /\ used.t \in DOMAIN blame
        THEN IF blame[used.t] \in DOMAIN st.graph
             THEN EdgeState(
                      [st.graph EXCEPT ![blame[used.t]] = @ \cup {qi_key}], "")
             ELSE EdgeState(st.graph, "Responsible qikey not found!")
        ELSE st

\* One matched term of qi_key (lines 127-144).
UseMatchedTerm(st, used, qi_key) ==
    IF st.panic # "" THEN st
    ELSE IF used.tag = "Trigger"
    THEN IF used.t \notin DOMAIN term_blame
         THEN st
         ELSE LET qi_responsible == term_blame[used.t]
              IN  IF qi_responsible \in DOMAIN st.graph
                  THEN EdgeState(
                           [st.graph EXCEPT ![qi_responsible] = @ \cup {qi_key}],
                           "")
                  ELSE EdgeState(st.graph, "Responsible qikey not found!")
    ELSE st

\* for used in u.iter() (lines 126-145).
RECURSIVE UseMatchedTerms(_, _, _)
UseMatchedTerms(st, u, qi_key) ==
    IF u = <<>> THEN st
    ELSE UseMatchedTerms(UseMatchedTerm(st, Head(u), qi_key), Tail(u), qi_key)

\* One record of the edge loop (lines 121-147).
EdgesOfRecord(st, qi_key) ==
    IF st.panic # "" THEN st
    ELSE IF instantiations[qi_key].frame.tag = "Discovered"
    THEN EdgeState(st.graph,
                   "We filtered out all of the Discovered instances already!")
    ELSE UseMatchedTerms(st, instantiations[qi_key].frame.used, qi_key)

\* for (qi_key, quant_inst) in quantifier_inst_matches (lines 120-148).
RECURSIVE EdgesOfRecords(_, _)
EdgesOfRecords(st, keys) ==
    IF keys = <<>> THEN st
    ELSE EdgesOfRecords(EdgesOfRecord(st, Head(keys)), Tail(keys))

\* Lines 120-148: U -> V when U is blamed for a term that triggered V.
BuildEdges ==
    /\ pc = "edges"
    /\ LET st == EdgesOfRecords(EdgeState(graph, ""), quantifier_inst_matches)
       IN  /\ graph' = st.graph
           /\ panic' = st.panic
           /\ pc' = IF st.panic = "" THEN "collapse" ELSE "panicked"
    /\ UNCHANGED <<model_vars, term_blame, instantiation_graph,
                   quantifier_stats, stdout, cursor, gui_graph>>

\* GraphNodes with only the nodes an edge touches.
GraphNodes_TouchedOnly ==
    { k \in DOMAIN graph : graph[k] # {} }
    \cup UNION { graph[k] : k \in DOMAIN graph }

\* The nodes of lines 151-161: every key of graph and every edge target.
GraphNodes == (DOMAIN graph) \cup UNION { graph[k] : k \in DOMAIN graph }

\* The edges of lines 150-161: an entry per source that has a target.
GraphEdges ==
    [ s \in { Tuple(k) : k \in { x \in DOMAIN graph : graph[x] # {} } } |->
        UNION { { Tuple(tgt) : tgt \in graph[k] } :
                  k \in { x \in DOMAIN graph : Tuple(x) = s } } ]

\* Whether lines 165-166 succeed for node k.
Resolvable(k) ==
    /\ k \in DOMAIN instantiations
    /\ terms[instantiations[k].frame.quantifier] # None
    /\ Unwrap(terms[instantiations[k].frame.quantifier]).name # None

\* The panic of lines 165-166 for a node they fail on.
NamePanic(k) ==
    IF k \notin DOMAIN instantiations
    THEN "called Option::unwrap() on a None value"
    ELSE IF terms[instantiations[k].frame.quantifier] = None
    THEN "not found"
    ELSE "called Option::unwrap() on a None value"

\* The name lines 165-166 resolve for a resolvable node k.
NameOf(k) == Unwrap(Unwrap(terms[instantiations[k].frame.quantifier]).name)

\* GraphNames with names resolved for the edge sources only.
GraphNames_SourcesOnly(nodes) ==
    [ s \in { Tuple(k) : k \in { x \in nodes \cap DOMAIN graph : graph[x] # {} } } |->
        NameOf(CHOOSE k \in nodes : Tuple(k) = s) ]

\* The names map of lines 162-169 over resolvable nodes.
GraphNames(nodes) ==
    [ s \in { Tuple(k) : k \in nodes } |->
        NameOf(CHOOSE k \in nodes : Tuple(k) = s) ]

\* CollapseAndName with a per-node skip (filter_map) in place of the panics:
\* a node whose name does not resolve is left without a name.
CollapseAndName_SkipUnresolved ==
    /\ pc = "collapse"
    /\ instantiation_graph' =
           Some([edges |-> GraphEdges,
                 names |-> GraphNames({ k \in GraphNodes : Resolvable(k) }),
                 nodes |-> { Tuple(k) : k \in GraphNodes }])
    /\ pc' = "rank"
    /\ UNCHANGED <<model_vars, term_blame, graph, quantifier_stats, stdout,
                   cursor, gui_graph, panic>>

\* Lines 149-177: the (key, version) form of the graph and the node names;
\* a node whose name does not resolve panics.
CollapseAndName ==
    /\ pc = "collapse"
    /\ IF \A k \in GraphNodes : Resolvable(k)
       THEN /\ instantiation_graph' =
                   Some([edges |-> GraphEdges,
                         names |-> GraphNames(GraphNodes),
                         nodes |-> { Tuple(k) : k \in GraphNodes }])
            /\ pc' = "rank"
            /\ UNCHANGED panic
       ELSE /\ \E k \in GraphNodes :
                   /\ ~Resolvable(k)
                   /\ panic' = NamePanic(k)
            /\ pc' = "panicked"
            /\ UNCHANGED instantiation_graph
    /\ UNCHANGED <<model_vars, term_blame, graph, quantifier_stats, stdout,
                   cursor, gui_graph>>

(***************************************************************************)
(* u64 arithmetic                                                          *)
(***************************************************************************)
Overflows(x) == x >= Word

Wrap(x) == x % Word

(***************************************************************************)
(* Profiler::parse, after the graph: the ranking of lines 82-85.           *)
(***************************************************************************)
\* The product of line 84, before the word cuts it.
Product(v) == v.instantiations * v.cost

\* The key of line 84 as the sort sees it.
SortKey(v) == Wrap(Product(v))

\* sort_by_key is stable: x goes behind every element whose key is not
\* greater than its own.
RECURSIVE InsertByKey(_, _)
InsertByKey(sorted, x) ==
    IF sorted = <<>> THEN <<x>>
    ELSE IF SortKey(x) < SortKey(Head(sorted))
    THEN <<x>> \o sorted
    ELSE <<Head(sorted)>> \o InsertByKey(Tail(sorted), x)

RECURSIVE SortByKeyFrom(_, _)
SortByKeyFrom(sorted, rest) ==
    IF rest = <<>> THEN sorted
    ELSE SortByKeyFrom(InsertByKey(sorted, Head(rest)), Tail(rest))

\* user_quant_costs.sort_by_key(...) (line 84).
SortByKey(s) == SortByKeyFrom(<<>>, s)

\* user_quant_costs.reverse() (line 85).
Reverse(s) == [i \in 1..Len(s) |-> s[Len(s) + 1 - i]]

\* RankedCosts without the reverse of line 85: ascending.
RankedCosts_NoReverse(costs) == SortByKey(costs)

\* RankedCosts as sort_by_key(|v| Reverse(key)) would have it: descending,
\* and stable, with no reverse.
RECURSIVE InsertByKeyDescending(_, _)
InsertByKeyDescending(sorted, x) ==
    IF sorted = <<>> THEN <<x>>
    ELSE IF SortKey(x) > SortKey(Head(sorted))
    THEN <<x>> \o sorted
    ELSE <<Head(sorted)>> \o InsertByKeyDescending(Tail(sorted), x)

RECURSIVE SortDescendingFrom(_, _)
SortDescendingFrom(sorted, rest) ==
    IF rest = <<>> THEN sorted
    ELSE SortDescendingFrom(InsertByKeyDescending(sorted, Head(rest)),
                            Tail(rest))

RankedCosts_StableDescending(costs) == SortDescendingFrom(<<>>, costs)

\* Lines 83-85.
RankedCosts(costs) == Reverse(SortByKey(costs))

\* Line 84 panics when a key overflows in a build with overflow checks; a
\* slice of fewer than two elements is sorted without computing a key.
SortPanics(costs) ==
    /\ overflow_checks
    /\ Len(costs) >= 2
    /\ \E i \in 1..Len(costs) : Overflows(Product(costs[i]))

\* Lines 82-91 and main's dump of the graph (lines 281-286).
RankCosts ==
    /\ pc = "rank"
    /\ IF SortPanics(quant_costs)
       THEN /\ panic' = "attempt to multiply with overflow"
            /\ pc' = "panicked"
            /\ UNCHANGED <<quantifier_stats, stdout>>
       ELSE /\ quantifier_stats' = Some(RankedCosts(quant_costs))
            /\ stdout' = <<[kind |-> "graph",
                            edges |-> Unwrap(instantiation_graph).edges,
                            names |-> Unwrap(instantiation_graph).names,
                            nodes |-> Unwrap(instantiation_graph).nodes]>>
            /\ pc' = "print_stats"
            /\ UNCHANGED panic
    /\ UNCHANGED <<model_vars, term_blame, graph, instantiation_graph, cursor,
                   gui_graph>>

(***************************************************************************)
(* Profiler::total_instantiations and Profiler::print_stats                *)
(***************************************************************************)
\* The sum of lines 180-182, before the word cuts it.
RECURSIVE SumInstantiations(_)
SumInstantiations(stats) ==
    IF stats = <<>> THEN 0
    ELSE Head(stats).instantiations + SumInstantiations(Tail(stats))

\* total_instantiations() in a build that wraps (lines 179-183).
total_instantiations(stats) == Wrap(SumInstantiations(stats))

\* Percentage rounding to the nearest integer.
Percentage_Rounded(count, stats) ==
    (Wrap(100 * count) + total_instantiations(stats) \div 2)
        \div total_instantiations(stats)

\* 100 * count / self.total_instantiations() in a build that wraps (line 192).
Percentage(count, stats) == Wrap(100 * count) \div total_instantiations(stats)

\* The panic of line 192 for this entry, "" when it prints: the product is
\* computed first, then the total, then the quotient.
PercentagePanic(count, stats) ==
    IF overflow_checks /\ Overflows(100 * count)
    THEN "attempt to multiply with overflow"
    ELSE IF overflow_checks /\ Overflows(SumInstantiations(stats))
    THEN "attempt to add with overflow"
    ELSE IF total_instantiations(stats) = 0
    THEN "attempt to divide by zero"
    ELSE ""

\* The line of lines 188-194.
StatLine(cost, stats) ==
    [kind |-> "stat", quant |-> cost.quant, count |-> cost.instantiations,
     percent |-> Percentage(cost.instantiations, stats)]

\* PrintStatsLine with a zero total special-cased as 0%.
PrintStatsLine_ZeroAsZeroPercent ==
    /\ pc = "print_stats"
    /\ cursor <= Len(Unwrap(quantifier_stats))
    /\ LET stats == Unwrap(quantifier_stats)
           cost == stats[cursor]
           p == PercentagePanic(cost.instantiations, stats)
       IN  IF p = "attempt to divide by zero"
           THEN /\ stdout' = Append(stdout,
                        [kind |-> "stat", quant |-> cost.quant,
                         count |-> cost.instantiations, percent |-> 0])
                /\ cursor' = cursor + 1
                /\ UNCHANGED <<pc, panic>>
           ELSE IF p # ""
           THEN /\ panic' = p
                /\ pc' = "panicked"
                /\ UNCHANGED <<stdout, cursor>>
           ELSE /\ stdout' = Append(stdout, StatLine(cost, stats))
                /\ cursor' = cursor + 1
                /\ UNCHANGED <<pc, panic>>
    /\ UNCHANGED <<model_vars, term_blame, graph, instantiation_graph,
                   quantifier_stats, gui_graph>>

\* One iteration of the loop of lines 186-195.
PrintStatsLine ==
    /\ pc = "print_stats"
    /\ cursor <= Len(Unwrap(quantifier_stats))
    /\ LET stats == Unwrap(quantifier_stats)
           cost == stats[cursor]
           p == PercentagePanic(cost.instantiations, stats)
       IN  IF p # ""
           THEN /\ panic' = p
                /\ pc' = "panicked"
                /\ UNCHANGED <<stdout, cursor>>
           ELSE /\ stdout' = Append(stdout, StatLine(cost, stats))
                /\ cursor' = cursor + 1
                /\ UNCHANGED <<pc, panic>>
    /\ UNCHANGED <<model_vars, term_blame, graph, instantiation_graph,
                   quantifier_stats, gui_graph>>

\* The loop of lines 186-195 is over: print_stats returns.
PrintStatsReturn ==
    /\ pc = "print_stats"
    /\ cursor > Len(Unwrap(quantifier_stats))
    /\ pc' = "printed"
    /\ UNCHANGED <<model_vars, term_blame, graph, instantiation_graph,
                   quantifier_stats, stdout, cursor, gui_graph, panic>>

(***************************************************************************)
(* main, after the report: without --gui it returns (lines 288-290); with  *)
(* it BasicApp::new calls generate_graph.                                  *)
(***************************************************************************)
Exit ==
    /\ pc = "printed"
    /\ pc' = "done"
    /\ UNCHANGED <<model_vars, term_blame, graph, instantiation_graph,
                   quantifier_stats, stdout, cursor, gui_graph, panic>>

\* The (source, target) pairs of an edges map.
EdgePairs(edges) ==
    UNION { { <<s, d>> : d \in edges[s] } : s \in DOMAIN edges }

\* Whether an unwrap of lines 216, 222, 224 fails on graph ig.
GenerateGraphPanics(ig) ==
    \/ \E node \in ig.nodes : node \notin DOMAIN ig.names
    \/ \E e \in EdgePairs(ig.edges) : e[1] \notin ig.nodes \/ e[2] \notin ig.nodes

\* generate_graph (lines 212-229).
LaunchGui ==
    /\ pc = "printed"
    /\ LET ig == Unwrap(instantiation_graph)
       IN  IF GenerateGraphPanics(ig)
           THEN /\ panic' = "called Option::unwrap() on a None value"
                /\ pc' = "panicked"
                /\ UNCHANGED gui_graph
           ELSE /\ gui_graph' =
                       Some([nodes |-> { <<n, ig.names[n]>> : n \in ig.nodes },
                             edges |-> EdgePairs(ig.edges)])
                /\ pc' = "gui"
                /\ UNCHANGED panic
    /\ UNCHANGED <<model_vars, term_blame, graph, instantiation_graph,
                   quantifier_stats, stdout, cursor>>

(***************************************************************************)
(* The inputs and the specifications                                       *)
(***************************************************************************)
\* The instantiation counts and the costs a QuantCost is drawn from: counts
\* whose hundredfold and whose sums do and do not fit the word.
InstantiationChoices == {0, 5, 10, Word \div 2}

CostChoices == {2, 4, 10}

\* The i-th aggregate of a collection is that of quantifier i.
QuantCost(i, n, c) == [quant |-> i, instantiations |-> n, cost |-> c]

\* The quant_costs collections of at most n aggregates.
QuantCostSeqs(n) ==
    UNION { { [i \in 1..m |-> QuantCost(i, f[i][1], f[i][2])] :
                f \in [1..m -> InstantiationChoices \X CostChoices] } :
            m \in 0..n }

\* The collection of the ranking scenario: Q1 {10, 2}, Q2 {5, 10}.
ScenarioCosts == <<QuantCost(1, 10, 2), QuantCost(2, 5, 10)>>

\* The chain scenario: A produces 1; B uses Trigger(1) and produces 2;
\* C uses Trigger(2).
ChainRecordA ==
    [frame |-> NewMatchFrame("q1", <<>>), instances |-> <<[enodes |-> <<1>>]>>]

ChainRecordB ==
    [frame |-> NewMatchFrame("q1", <<Trigger(1)>>),
     instances |-> <<[enodes |-> <<2>>]>>]

ChainRecordC ==
    [frame |-> NewMatchFrame("q2", <<Trigger(2)>>), instances |-> <<>>]

ChainModel ==
    [k \in QiKeys |->
        IF k = [key |-> 1, version |-> 0] THEN ChainRecordA
        ELSE IF k = [key |-> 1, version |-> 1] THEN ChainRecordB
        ELSE ChainRecordC]

\* The state main starts make_instantiation_graph in.
InitRun ==
    /\ pc = "blame"
    /\ term_blame = EmptyMap
    /\ graph = EmptyMap
    /\ instantiation_graph = None
    /\ quantifier_stats = None
    /\ stdout = <<>>
    /\ cursor = 1
    /\ gui_graph = None
    /\ panic = ""

\* Every trace model over QiKeys, with the scenario's cost collection.
Init ==
    /\ instantiations \in { f \in [QiKeys -> UNION { RecordChoices(k) : k \in QiKeys }] :
                              \A k \in QiKeys : f[k] \in RecordChoices(k) }
    /\ terms \in TermTables
    /\ quant_costs = ScenarioCosts
    /\ overflow_checks \in BOOLEAN
    /\ InitRun

\* The chain model, with every cost collection of at most MaxQuantCosts
\* aggregates.
InitRank ==
    /\ instantiations = ChainModel
    /\ terms \in TermTables
    /\ quant_costs \in QuantCostSeqs(MaxQuantCosts)
    /\ overflow_checks \in BOOLEAN
    /\ InitRun

Next ==
    \/ BlameAttribution
    \/ InitGraphNodes
    \/ BuildEdges
    \/ CollapseAndName
    \/ RankCosts
    \/ PrintStatsLine
    \/ PrintStatsReturn
    \/ Exit
    \/ LaunchGui

Spec == Init /\ [][Next]_vars

SpecRank == InitRank /\ [][Next]_vars

(***************************************************************************)
(* What the properties below speak of, read off the trace model.           *)
(***************************************************************************)
NewMatchKeys ==
    { k \in DOMAIN instantiations : instantiations[k].frame.tag = "NewMatch" }

DiscoveredKeys ==
    { k \in DOMAIN instantiations : instantiations[k].frame.tag = "Discovered" }

\* The terms record k lists among its produced terms.
ProducedTerms(k) ==
    UNION { { instantiations[k].instances[i].enodes[j] :
                j \in 1..Len(instantiations[k].instances[i].enodes) } :
            i \in 1..Len(instantiations[k].instances) }

\* The matched terms NewMatch record k used.
UsedTerms(k) ==
    { instantiations[k].frame.used[i] :
        i \in 1..Len(instantiations[k].frame.used) }

\* The terms t with Trigger(t) among k's used terms.
TriggerTerms(k) == { m.t : m \in { x \in UsedTerms(k) : x.tag = "Trigger" } }

KeyPair(k) == <<k.key, k.version>>

GraphReturned == instantiation_graph # None

ReturnedGraph == Unwrap(instantiation_graph)

\* The edges (u, v) of the returned graph.
ReturnedEdges ==
    UNION { { <<u, v>> : v \in ReturnedGraph.edges[u] } :
            u \in DOMAIN ReturnedGraph.edges }

\* C1: every edge (u, v) of the returned graph is justified: v is the key of
\* a NewMatch record that used a Trigger(t) with blame[t] = u in the final
\* blame map; Equality terms, Discovered records and unblamed triggers make
\* no edge.
C1_EdgesJustified ==
    GraphReturned =>
        \A e \in ReturnedEdges :
            \E k \in NewMatchKeys :
                /\ KeyPair(k) = e[2]
                /\ \E t \in TriggerTerms(k) :
                       /\ t \in DOMAIN term_blame
                       /\ KeyPair(term_blame[t]) = e[1]

\* A graph with an edge, built from a model in which a record used only an
\* Equality over a blamed term and got no incoming edge for it.
C1_Witness ==
    /\ GraphReturned
    /\ ReturnedEdges # {}
    /\ \E k \in NewMatchKeys :
           /\ TriggerTerms(k) = {}
           /\ \E m \in UsedTerms(k) :
                  /\ m.tag = "Equality"
                  /\ m.t1 \in DOMAIN term_blame
                  /\ <<KeyPair(term_blame[m.t1]), KeyPair(k)>> \notin ReturnedEdges

\* The chain scenario: A produces t1; B uses Trigger(t1) and produces t2;
\* C uses Trigger(t2); whichever keys A, B and C have.
IsChain(a, b, c) ==
    /\ {a, b, c} = DOMAIN instantiations
    /\ a # b /\ b # c /\ a # c
    /\ {a, b, c} = NewMatchKeys
    /\ UsedTerms(a) = {} /\ ProducedTerms(a) = {1}
    /\ UsedTerms(b) = {Trigger(1)} /\ ProducedTerms(b) = {2}
    /\ UsedTerms(c) = {Trigger(2)} /\ ProducedTerms(c) = {}

\* C2: for every NewMatch record R and every Trigger(t) it used that the
\* completed blame map has an entry for, the edge blame[t] -> R.key is in
\* the returned graph, whether the producer is iterated before or after R;
\* the builder never panics with "Responsible qikey not found!"; the chain
\* scenario yields exactly the edges A -> B and B -> C.
C2_BlamedTriggersMakeEdges ==
    /\ panic # "Responsible qikey not found!"
    /\ GraphReturned =>
           /\ \A k \in NewMatchKeys : \A t \in TriggerTerms(k) :
                  t \in DOMAIN term_blame =>
                      <<KeyPair(term_blame[t]), KeyPair(k)>> \in ReturnedEdges
           /\ \A a, b, c \in DOMAIN instantiations :
                  IsChain(a, b, c) =>
                      ReturnedEdges = { <<KeyPair(a), KeyPair(b)>>,
                                        <<KeyPair(b), KeyPair(c)>> }

\* A returned graph of a chain whose producers are iterated after their
\* consumers.
C2_Witness ==
    /\ GraphReturned
    /\ \E a, b, c \in DOMAIN instantiations :
           /\ IsChain(a, b, c)
           /\ QiKeyLess(c, b)
           /\ QiKeyLess(b, a)
           /\ <<KeyPair(a), KeyPair(b)>> \in ReturnedEdges

\* C3: the nodes of the returned graph are exactly the keys of the NewMatch
\* records, isolated ones included, and no key of a Discovered record.
C3_NodesAreNewMatchKeys ==
    GraphReturned =>
        /\ ReturnedGraph.nodes = { KeyPair(k) : k \in NewMatchKeys }
        /\ \A k \in DiscoveredKeys : KeyPair(k) \notin ReturnedGraph.nodes

\* A returned graph with a Discovered record left out and, as a node without
\* any edge, a NewMatch record whose only trigger term has no producer.
C3_Witness ==
    /\ GraphReturned
    /\ DiscoveredKeys # {}
    /\ \E k \in NewMatchKeys :
           /\ TriggerTerms(k) # {}
           /\ TriggerTerms(k) \cap DOMAIN term_blame = {}
           /\ KeyPair(k) \in ReturnedGraph.nodes
           /\ \A e \in ReturnedEdges : e[1] # KeyPair(k) /\ e[2] # KeyPair(k)

\* The panics of the arithmetic of parse and print_stats.
ArithmeticPanics ==
    { "attempt to multiply with overflow", "attempt to add with overflow",
      "attempt to divide by zero" }

\* C4: a returned graph is well formed: both ends of every edge are nodes
\* and the keys of names are the nodes; so no lookup of generate_graph
\* fails: once parse has returned, no panic but an arithmetic one occurs.
C4_GraphWellFormed ==
    /\ GraphReturned =>
           /\ \A e \in ReturnedEdges :
                  e[1] \in ReturnedGraph.nodes /\ e[2] \in ReturnedGraph.nodes
           /\ DOMAIN ReturnedGraph.names = ReturnedGraph.nodes
    /\ (quantifier_stats # None /\ pc = "panicked") => panic \in ArithmeticPanics
    /\ gui_graph # None =>
           /\ { n[1] : n \in Unwrap(gui_graph).nodes } = ReturnedGraph.nodes
           /\ Unwrap(gui_graph).edges = ReturnedEdges

\* generate_graph has built the GUI graph of a graph with two edges and an
\* isolated node.
C4_Witness ==
    /\ pc = "gui"
    /\ gui_graph # None
    /\ Cardinality(ReturnedEdges) >= 2
    /\ \E n \in ReturnedGraph.nodes :
           \A e \in ReturnedEdges : e[1] # n /\ e[2] # n

\* Whether the term of k's quantifier reference, or that term's name, is
\* missing from the term table.
NameUnresolved(k) ==
    \/ terms[instantiations[k].frame.quantifier] = {}
    \/ \E term \in terms[instantiations[k].frame.quantifier] : term.name = {}

\* C9: if the name of some node (a NewMatch key) cannot be resolved, the run
\* never gets past graph construction: no graph is returned, no ranked list
\* is built, nothing is printed, and the run ends in the panic of the failed
\* lookup.
C9_UnresolvedNameAborts ==
    (\E k \in NewMatchKeys : NameUnresolved(k)) =>
        /\ instantiation_graph = None
        /\ quantifier_stats = None
        /\ stdout = <<>>
        /\ gui_graph = None
        /\ pc \in {"blame", "init_nodes", "edges", "collapse", "panicked"}
        /\ pc = "panicked" =>
               panic \in {"not found", "called Option::unwrap() on a None value"}

\* The run has panicked on a missing term, after the edge loop made an edge.
C9_Witness ==
    /\ pc = "panicked"
    /\ panic = "not found"
    /\ \E k \in NewMatchKeys : NameUnresolved(k)
    /\ \E k \in DOMAIN graph : graph[k] # {}

\* The NewMatch records that list t among their produced terms.
Producers(t) == { k \in NewMatchKeys : t \in ProducedTerms(k) }

\* C10: after the blame pass the keys of the blame map are the terms some
\* NewMatch record produced, and blame[t] is the last NewMatch record, in
\* the iteration order of the instantiation collection, that produced t.
C10_BlameIsLastProducer ==
    pc # "blame" =>
        /\ DOMAIN term_blame = { t \in Enodes : Producers(t) # {} }
        /\ \A t \in DOMAIN term_blame :
               /\ term_blame[t] \in Producers(t)
               /\ \A k \in Producers(t) \ {term_blame[t]} :
                      QiKeyLess(k, term_blame[t])

\* After the pass: a term two NewMatch records produced, and a term only a
\* Discovered record produced, which has no entry.
C10_Witness ==
    /\ pc # "blame"
    /\ \E t \in DOMAIN term_blame : Cardinality(Producers(t)) >= 2
    /\ \E t \in Enodes :
           /\ t \notin DOMAIN term_blame
           /\ \E k \in DiscoveredKeys : t \in ProducedTerms(k)

(***************************************************************************)
(* The ranking and the report.                                             *)
(***************************************************************************)
Ranked == quantifier_stats # None

RankedList == Unwrap(quantifier_stats)

\* instantiations x cost, as a number.
Score(v) == v.instantiations * v.cost

\* Whether x fits in the unsigned word.
Fits(x) == x < Word

ScoresFit == \A i \in 1..Len(quant_costs) : Fits(Score(quant_costs[i]))

\* How many entries of s equal x.
Occurrences(s, x) == Cardinality({ i \in 1..Len(s) : s[i] = x })

\* Whether s is a permutation of t.
IsPermutation(s, t) ==
    /\ Len(s) = Len(t)
    /\ \A i \in 1..Len(t) : Occurrences(s, t[i]) = Occurrences(t, t[i])

\* C5: when every instantiations x cost fits in the unsigned word, the
\* ranked list is a permutation of the cost aggregates in which each entry's
\* instantiations x cost is at least that of the entry after it.
C5_RankedDescending ==
    (Ranked /\ ScoresFit) =>
        /\ IsPermutation(RankedList, quant_costs)
        /\ \A i \in 1..(Len(RankedList) - 1) :
               Score(RankedList[i]) >= Score(RankedList[i + 1])

\* A ranked list of three aggregates of three different scores that came in
\* neither ascending nor descending order.
C5_Witness ==
    /\ Ranked
    /\ ScoresFit
    /\ Len(quant_costs) = 3
    /\ Score(quant_costs[1]) < Score(quant_costs[3])
    /\ Score(quant_costs[3]) < Score(quant_costs[2])
    /\ Score(RankedList[1]) > Score(RankedList[3])

\* The place of the i-th input aggregate in the ranked list.
RankOf(i) == CHOOSE p \in 1..Len(RankedList) : RankedList[p] = quant_costs[i]

\* The pairs i < j of input aggregates of equal instantiations x cost.
Ties ==
    { ij \in (1..Len(quant_costs)) \X (1..Len(quant_costs)) :
        ij[1] < ij[2] /\ Score(quant_costs[ij[1]]) = Score(quant_costs[ij[2]]) }

\* C6 as stated: aggregates of equal instantiations x cost keep their input
\* order in the ranked list (here for inputs whose scores fit the word).
C6_TiesKeepInputOrder ==
    (Ranked /\ ScoresFit) => \A ij \in Ties : RankOf(ij[1]) < RankOf(ij[2])

\* C6, amended: aggregates of equal instantiations x cost appear in the
\* ranked list in the reverse of their input order; the input Q1 {10, 2},
\* Q2 {5, 10}, of scores 20 and 50, is ranked Q2 then Q1.
C6_TiesReverseInputOrder ==
    Ranked =>
        /\ \A ij \in Ties : RankOf(ij[2]) < RankOf(ij[1])
        /\ quant_costs = ScenarioCosts =>
               RankedList = <<QuantCost(2, 5, 10), QuantCost(1, 10, 2)>>

\* A ranked list of an input with two different aggregates of one non-zero
\* score.
C6_Witness ==
    /\ Ranked
    /\ ScoresFit
    /\ \E ij \in Ties :
           /\ Score(quant_costs[ij[1]]) > 0
           /\ quant_costs[ij[1]].cost # quant_costs[ij[2]].cost

\* The report lines print_stats has printed.
ReportLines == SelectSeq(stdout, LAMBDA l : l.kind = "stat")

\* The sum of the instantiations of the ranked entries, as a number.
RECURSIVE SumOf(_)
SumOf(s) == IF s = <<>> THEN 0 ELSE Head(s).instantiations + SumOf(Tail(s))

TotalInstantiations == SumOf(RankedList)

RECURSIVE SumOfPercentages(_)
SumOfPercentages(lines) ==
    IF lines = <<>> THEN 0
    ELSE Head(lines).percent + SumOfPercentages(Tail(lines))

PrintStatsReturned == pc \in {"printed", "done", "gui"}

\* C7 as stated: when the total is not zero, every report line states
\* floor(100 * instantiations / total).
C7_PercentageIsFloor ==
    (Ranked /\ TotalInstantiations # 0) =>
        \A i \in 1..Len(ReportLines) :
            /\ ReportLines[i].count = RankedList[i].instantiations
            /\ ReportLines[i].percent =
                   (100 * RankedList[i].instantiations) \div TotalInstantiations

\* C7, amended: when the total is not zero and fits the unsigned word, the
\* line of every entry whose 100 * instantiations fits it states the entry's
\* instantiations and floor(100 * instantiations / total); when that holds
\* of every entry, print_stats prints a line per entry without a panic and
\* the percentages sum to at most 100.
C7_PercentageIsFloorWhenFits ==
    (Ranked /\ TotalInstantiations # 0 /\ Fits(TotalInstantiations)) =>
        /\ \A i \in 1..Len(ReportLines) :
               Fits(100 * RankedList[i].instantiations) =>
                   /\ ReportLines[i].quant = RankedList[i].quant
                   /\ ReportLines[i].count = RankedList[i].instantiations
                   /\ ReportLines[i].percent =
                          (100 * RankedList[i].instantiations)
                              \div TotalInstantiations
        /\ (\A i \in 1..Len(RankedList) :
                Fits(100 * RankedList[i].instantiations)) =>
               /\ pc # "panicked"
               /\ PrintStatsReturned => Len(ReportLines) = Len(RankedList)
               /\ SumOfPercentages(ReportLines) <= 100

\* print_stats has returned after reporting 33% for 5 and 66% for 10 of 15
\* instantiations.
C7_Witness ==
    /\ PrintStatsReturned
    /\ TotalInstantiations = 15
    /\ \E i, j \in 1..Len(ReportLines) :
           /\ ReportLines[i].count = 5 /\ ReportLines[i].percent = 33
           /\ ReportLines[j].count = 10 /\ ReportLines[j].percent = 66

\* C8 as stated: with a total of zero print_stats does not return normally.
C8_ZeroTotalAborts ==
    (Ranked /\ TotalInstantiations = 0) => ~PrintStatsReturned

\* C8, amended: with a total of zero and at least one ranked entry,
\* print_stats prints no report line and ends in the panic of the division
\* by zero, at its first entry; with no ranked entry it divides nothing and
\* returns normally, having printed no line.
C8_ZeroTotalAbortsUnlessEmpty ==
    (Ranked /\ TotalInstantiations = 0) =>
        /\ ReportLines = <<>>
        /\ RankedList # <<>> =>
               /\ pc \in {"print_stats", "panicked"}
               /\ cursor = 1
               /\ pc = "panicked" => panic = "attempt to divide by zero"
        /\ RankedList = <<>> => pc # "panicked"

\* print_stats has panicked dividing by a total of zero over two entries.
C8_Witness ==
    /\ Ranked
    /\ Len(RankedList) = 2
    /\ TotalInstantiations = 0
    /\ pc = "panicked"
    /\ panic = "attempt to divide by zero"
    /\ ReportLines = <<>>

====
